---- MODULE Spec2Model ----
(***************************************************************************)
(* Model of scripts/verify-marketplace.py: the Report aggregator, the      *)
(* frontmatter parser, the rule validators, the orphan scanner, the fixer  *)
(* and the verify() orchestrator.                                          *)
(*                                                                         *)
(* Python strings are sequences of one-character strings, so that strip,   *)
(* lstrip, startswith, partition and split act on characters as they do in *)
(* the code.  A dict is a function; `k in d` is k \in DOMAIN d.            *)
(***************************************************************************)
EXTENDS Integers, Sequences, FiniteSets, TLC

VARIABLES
    report,           \* the Report of the current run (errors, warnings, stats)
    calls,            \* history of the error()/warning() calls made on report
    skill_path,       \* a skill reference as written in the manifest
    normalized,       \* what validate_plugin computed from skill_path
    content,          \* text of a skill document
    fm_result,        \* <<fm, err>> as returned by parse_frontmatter
    marketplace,      \* the manifest file on disk
    skill_files,      \* the SKILL.md files on disk: directory parts -> content
    all_skill_paths,  \* the ownership map built by the last verify()
    manifest,         \* the manifest object the last verify() held in memory
    steps,            \* the operations run, in order
    runs              \* the last two verify() runs since the disk last changed

vars == <<report, calls, skill_path, normalized, content, fm_result,
          marketplace, skill_files, all_skill_paths, manifest, steps, runs>>

\* An optional value: None (or a key missing from a JSON object) is the empty
\* tuple, a present value x is <<x>>.
None == <<>>
Some(x) == <<x>>

(***************************************************************************)
(* Strings                                                                 *)
(***************************************************************************)
Whitespace == {" ", "\t"}

RECURSIVE LstripChars(_, _)
\* str.lstrip(chars): drop leading characters that are members of chars.
LstripChars(s, chars) ==
    IF s # <<>> /\ Head(s) \in chars THEN LstripChars(Tail(s), chars) ELSE s

RECURSIVE RstripChars(_, _)
RstripChars(s, chars) ==
    IF s # <<>> /\ s[Len(s)] \in chars
    THEN RstripChars(SubSeq(s, 1, Len(s) - 1), chars)
    ELSE s

\* str.strip()
Strip(s) == RstripChars(LstripChars(s, Whitespace), Whitespace)

\* str.startswith(prefix)
StartsWith(s, prefix) ==
    Len(s) >= Len(prefix) /\ SubSeq(s, 1, Len(prefix)) = prefix

\* str.endswith(suffix)
EndsWith(s, suffix) ==
    Len(s) >= Len(suffix) /\ SubSeq(s, Len(s) - Len(suffix) + 1, Len(s)) = suffix

\* `sub in s` for strings
Contains(s, sub) ==
    \E i \in 1..(Len(s) - Len(sub) + 1) : SubSeq(s, i, i + Len(sub) - 1) = sub

\* Index of the first occurrence of character c in s, 0 if there is none.
IndexOf(s, c) ==
    IF \E i \in 1..Len(s) : s[i] = c
    THEN CHOOSE i \in 1..Len(s) : s[i] = c /\ \A j \in 1..(i - 1) : s[j] # c
    ELSE 0

\* str.partition(c): <<before, after>> around the first c (c is known to occur).
Partition(s, c) ==
    LET i == IndexOf(s, c) IN <<SubSeq(s, 1, i - 1), SubSeq(s, i + 1, Len(s))>>

RECURSIVE Split(_, _)
\* str.split(c): the pieces between occurrences of c; never empty.
Split(s, c) ==
    LET i == IndexOf(s, c) IN
    IF i = 0 THEN <<s>>
    ELSE <<SubSeq(s, 1, i - 1)>> \o Split(SubSeq(s, i + 1, Len(s)), c)

\* str.lower() on the letters the model uses.
LowerChar(c) ==
    CASE c = "U" -> "u" [] c = "W" -> "w" [] c = "I" -> "i" [] OTHER -> c

Lower(s) == [i \in 1..Len(s) |-> LowerChar(s[i])]

RECURSIVE SelectParts(_)
SelectParts(ps) ==
    IF ps = <<>> THEN <<>>
    ELSE IF Head(ps) = <<>> \/ Head(ps) = <<".">> THEN SelectParts(Tail(ps))
    ELSE <<Head(ps)>> \o SelectParts(Tail(ps))

\* pathlib: the parts of a relative path; empty and "." components collapse.
Parts(p) == SelectParts(Split(p, "/"))

(***************************************************************************)
(* Constants of the script                                                 *)
(***************************************************************************)
REQUIRED_MARKETPLACE_FIELDS == <<"name", "plugins">>
REQUIRED_PLUGIN_FIELDS == <<"name", "source">>
RECOMMENDED_PLUGIN_FIELDS == <<"description", "category">>
MAX_NAME_LENGTH == 64
MAX_DESCRIPTION_LENGTH == 1024
MAX_SKILL_LINES == 500
GERUND_SUFFIXES == {<<"i","n","g">>, <<"m","e","n","t">>,
                    <<"t","i","o","n">>, <<"s","i","o","n">>}
FIRST_PERSON_STARTS == {<<"i"," ">>, <<"w","e"," ">>, <<"m","y"," ">>,
                        <<"o","u","r"," ">>}

(***************************************************************************)
(* Report                                                                  *)
(***************************************************************************)
\* Report.__init__
NewReport ==
    [errors |-> <<>>, warnings |-> <<>>,
     stats |-> [plugins_checked |-> 0, skills_checked |-> 0,
                skills_missing |-> 0, orphans_found |-> 0]]

\* The entry built by error() and warning(): path and fix only when truthy.
Entry(severity, rule, message, path, fix) ==
    [severity |-> severity, rule |-> rule, message |-> message]
        @@ (IF path # None /\ path[1] # <<>> THEN [path |-> path[1]] ELSE <<>>)
        @@ (IF fix # None /\ fix[1] # <<>> THEN [fix |-> fix[1]] ELSE <<>>)

\* Report.error
ReportError(r, rule, message, path, fix) ==
    [r EXCEPT !.errors = Append(@, Entry("error", rule, message, path, fix))]

\* Report.warning
ReportWarning(r, rule, message, path, fix) ==
    [r EXCEPT !.warnings = Append(@, Entry("warning", rule, message, path, fix))]

\* A passed() that lets warnings fail the report.
PassedCountsWarnings(r) == Len(r.errors) = 0 /\ Len(r.warnings) = 0

\* Report.passed
Passed(r) == Len(r.errors) = 0

\* Report.to_dict
ToDict(r) ==
    [status |-> IF Passed(r) THEN "PASS" ELSE "FAIL",
     errors |-> r.errors, warnings |-> r.warnings, stats |-> r.stats]

\* The "Status:" line of Report.to_table
TableStatus(r) == IF Passed(r) THEN "PASS" ELSE "FAIL"

Bump(r, counter) == [r EXCEPT !.stats[counter] = @ + 1]

(***************************************************************************)
(* Frontmatter parser                                                      *)
(*                                                                         *)
(* A document is the sequence of its lines (content.split("\n"), which is  *)
(* never empty).  A frontmatter value is a string or a list of strings;    *)
(* the tag keeps the two apart as isinstance does.                         *)
(***************************************************************************)
DELIM == <<"-", "-", "-">>
NO_OPENING == "No YAML frontmatter found (missing opening ---)"
UNCLOSED == "Unclosed YAML frontmatter (missing closing ---)"
NO_ERROR == "None"

Str(s) == [tag |-> "str", val |-> s]
List(l) == [tag |-> "list", val |-> l]

\* Python truthiness of a frontmatter value or of fm.get(key, "").
Truthy(v) == v.val # <<>>

\* d[k] = v
DictSet(d, k, v) == [x \in DOMAIN d \cup {k} |-> IF x = k THEN v ELSE d[x]]

\* fm.get(key, "")
FmGet(fm, key) == IF key \in DOMAIN fm THEN fm[key] ELSE Str(<<>>)

\* Index of the closing delimiter: the first line after the first that
\* strips to ---; 0 when there is none (end_idx is None).
EndIdx(lines) ==
    IF \E i \in 2..Len(lines) : Strip(lines[i]) = DELIM
    THEN CHOOSE i \in 2..Len(lines) :
            /\ Strip(lines[i]) = DELIM
            /\ \A j \in 2..(i - 1) : Strip(lines[j]) # DELIM
    ELSE 0

\* `current_key and current_list is not None`
ListOpen(st) ==
    st.current_key # None /\ st.current_key[1] # <<>> /\ st.current_list # None

\* A save that tests the list for truth instead of `is not None`.
SaveListIfNonEmpty(st) ==
    IF ListOpen(st) /\ st.current_list[1] # <<>>
    THEN [st EXCEPT !.fm = DictSet(@, st.current_key[1], List(st.current_list[1]))]
    ELSE st

\* "Save previous list if any" / "Save final list"
SaveList(st) ==
    IF ListOpen(st)
    THEN [st EXCEPT !.fm = DictSet(@, st.current_key[1], List(st.current_list[1]))]
    ELSE st

\* One iteration of the loop over the lines between the delimiters.
ParseLine(st, line) ==
    LET stripped == Strip(line) IN
    IF stripped = <<>> \/ StartsWith(stripped, <<"#">>) THEN st
    ELSE IF StartsWith(stripped, <<"-", " ">>) THEN
        IF ListOpen(st)
        THEN [st EXCEPT !.current_list =
                 Some(Append(@[1], Strip(SubSeq(stripped, 3, Len(stripped)))))]
        ELSE st
    ELSE IF IndexOf(stripped, ":") # 0 THEN
        LET kv == Partition(stripped, ":")
            key == Strip(kv[1])
            value == Strip(kv[2])
            saved == SaveList(st)
        IN  IF value # <<>>
            THEN [fm |-> DictSet(saved.fm, key, Str(value)),
                  current_key |-> Some(key), current_list |-> None]
            ELSE [fm |-> saved.fm, current_key |-> Some(key),
                  current_list |-> Some(<<>>)]
    ELSE st

RECURSIVE ParseBlock(_, _)
ParseBlock(st, block) ==
    IF block = <<>> THEN st
    ELSE ParseBlock(ParseLine(st, Head(block)), Tail(block))

\* parse_frontmatter(content): (fm, err)
parse_frontmatter(lines) ==
    IF Strip(lines[1]) # DELIM THEN [fm |-> None, err |-> NO_OPENING]
    ELSE IF EndIdx(lines) = 0 THEN [fm |-> None, err |-> UNCLOSED]
    ELSE LET block == SubSeq(lines, 2, EndIdx(lines) - 1)
             st0 == [fm |-> <<>>, current_key |-> None, current_list |-> None]
         IN  [fm |-> Some(SaveList(ParseBlock(st0, block)).fm),
              err |-> NO_ERROR]

(***************************************************************************)
(* Skill document validators                                               *)
(*                                                                         *)
(* An exception nothing catches ends the run without a report: the report  *)
(* of such a run is Crash.                                                 *)
(***************************************************************************)
Crash == [crashed |-> TRUE]
IsCrash(r) == "crashed" \in DOMAIN r

LowerLetters == {"a","b","c","d","e","f","g","h","i","j","k","l","m",
                 "n","o","p","q","r","s","t","u","v","w","x","y","z"}
Digits == {"0","1","2","3","4","5","6","7","8","9"}

\* NAME_PATTERN.match(name) for ^[a-z][a-z0-9]*(-[a-z0-9]+)*$ : a lowercase
\* letter first, then letters, digits and hyphens, each hyphen followed by a
\* letter or digit.
NamePatternMatches(name) ==
    /\ name # <<>>
    /\ name[1] \in LowerLetters
    /\ \A i \in 1..Len(name) : name[i] \in LowerLetters \cup Digits \cup {"-"}
    /\ \A i \in 1..Len(name) :
          name[i] = "-" => (i < Len(name) /\ name[i + 1] # "-")

\* The file a skill reference names: <root>/<normalized>/SKILL.md
SKILL_MD == <<"S","K","I","L","L",".","m","d">>
SkillMd(norm) == Parts(norm) \o <<SKILL_MD>>

\* validate_name, called with a truthy frontmatter value
validate_name(name, path, skill_md, r) ==
    IF name.tag # "str" THEN Crash   \* NAME_PATTERN.match(list): TypeError
    ELSE
    LET n == name.val
        r1 == IF Len(n) > MAX_NAME_LENGTH
              THEN ReportError(r, "name-too-long", <<n>>, Some(skill_md), None)
              ELSE r
        r2 == IF ~NamePatternMatches(n)
              THEN ReportError(r1, "invalid-name-format", <<n>>, Some(skill_md), None)
              ELSE r1
        r3 == IF Contains(n, <<"-", "-">>)
              THEN ReportError(r2, "consecutive-hyphens", <<n>>, Some(skill_md), None)
              ELSE r2
        first_word == Split(n, "-")[1]
        r4 == IF ~\E sfx \in GERUND_SUFFIXES : EndsWith(first_word, sfx)
              THEN ReportWarning(r3, "non-gerund-name", <<n>>, Some(skill_md), None)
              ELSE r3
        parts == Parts(path)
        dir_name == IF parts # <<>> THEN parts[Len(parts)] ELSE <<>>
        parent_dir == IF Len(parts) >= 2 THEN parts[Len(parts) - 1] ELSE <<>>
        parent_prefixed == IF parent_dir # <<>>
                           THEN parent_dir \o <<"-">> \o dir_name ELSE <<>>
    IN  IF n # dir_name /\ n # parent_prefixed
        THEN ReportWarning(r4, "name-mismatch", <<n>>, Some(skill_md), None)
        ELSE r4

\* validate_description, called with a truthy frontmatter value
validate_description(desc, skill_md, r) ==
    IF desc.tag # "str" THEN Crash   \* list.lower(): AttributeError
    ELSE
    LET d == desc.val
        r1 == IF Len(d) > MAX_DESCRIPTION_LENGTH
              THEN ReportError(r, "description-too-long", <<d>>, Some(skill_md), None)
              ELSE r
        lower == Strip(Lower(d))
        r2 == IF \E fp \in FIRST_PERSON_STARTS : StartsWith(lower, fp)
              THEN ReportWarning(r1, "first-person-description", <<d>>,
                                 Some(skill_md), None)
              ELSE r1
    IN  IF ~Contains(lower, <<"u","s","e"," ","w","h","e","n">>)
        THEN ReportWarning(r2, "missing-use-when", <<d>>, Some(skill_md), None)
        ELSE r2

RECURSIVE RequiredFrontmatterFields(_, _, _, _)
\* for field in REQUIRED_FRONTMATTER_FIELDS: if field not in fm: error
RequiredFrontmatterFields(fields, fm, skill_md, r) ==
    IF fields = <<>> THEN r
    ELSE RequiredFrontmatterFields(Tail(fields), fm, skill_md,
            IF Head(fields) \notin DOMAIN fm
            THEN ReportError(r, "missing-frontmatter-field", <<Head(fields)>>,
                             Some(skill_md), None)
            ELSE r)

\* The frontmatter keys the validators look up.
KEY_NAME == <<"n","a","m","e">>
KEY_DESCRIPTION == <<"d","e","s","c","r","i","p","t","i","o","n">>

REQUIRED_FRONTMATTER_FIELDS == <<KEY_NAME, KEY_DESCRIPTION>>

\* A skill document that read_text cannot read (a readable one has at least
\* one line).
Unreadable == <<>>

\* `if name:` for a frontmatter value
NameRuleRuns(name) == Truthy(name)

\* validate_skill_md(skill_md, skill_path, report); doc is what read_text gives
validate_skill_md(doc, skill_md, path, r) ==
    IF doc = Unreadable
    THEN ReportError(r, "read-error", <<>>, Some(skill_md), None)
    ELSE
    LET r1 == IF Len(doc) > MAX_SKILL_LINES
              THEN ReportWarning(r, "skill-too-large", <<Len(doc)>>,
                                 Some(skill_md), None)
              ELSE r
        res == parse_frontmatter(doc)
    IN  IF res.err # NO_ERROR
        THEN ReportError(r1, "invalid-frontmatter", <<res.err>>, Some(skill_md), None)
        ELSE IF res.fm = None
        THEN ReportError(r1, "missing-frontmatter", <<>>, Some(skill_md), None)
        ELSE
        LET fm == res.fm[1]
            r2 == RequiredFrontmatterFields(
                     REQUIRED_FRONTMATTER_FIELDS, fm, skill_md, r1)
            name == FmGet(fm, KEY_NAME)
            r3 == IF NameRuleRuns(name)
                  THEN validate_name(name, path, skill_md, r2) ELSE r2
            desc == FmGet(fm, KEY_DESCRIPTION)
        IN  IF IsCrash(r3) THEN Crash
            ELSE IF Truthy(desc) THEN validate_description(desc, skill_md, r3)
            ELSE r3

(***************************************************************************)
(* Manifest validators                                                     *)
(*                                                                         *)
(* A JSON object is a function from its keys.  A JSON array is List(seq);  *)
(* the only other JSON value the model gives to `plugins` and `skills` is  *)
(* a number, Num.  The required and recommended fields are visited in a    *)
(* fixed order (the code iterates over Python sets).                       *)
(***************************************************************************)
Num == [tag |-> "num", val |-> <<>>]

\* dict.get(key, default)
Get(d, key, default) == IF key \in DOMAIN d THEN d[key] ELSE default

RECURSIVE RequiredMarketplaceFields(_, _, _)
RequiredMarketplaceFields(fields, data, r) ==
    IF fields = <<>> THEN r
    ELSE RequiredMarketplaceFields(Tail(fields), data,
            IF Head(fields) \notin DOMAIN data
            THEN ReportError(r, "required-field", <<Head(fields)>>, None, None)
            ELSE r)

\* validate_marketplace_structure(data, report)
validate_marketplace_structure(data, r) ==
    LET r1 == RequiredMarketplaceFields(REQUIRED_MARKETPLACE_FIELDS, data, r) IN
    IF "plugins" \in DOMAIN data /\ data["plugins"].tag # "list"
    THEN ReportError(r1, "invalid-type", <<"plugins">>, None, None)
    ELSE r1

\* f"plugin[{idx}]"; idx counts from 0
DigitChar(i) == <<"0","1","2","3","4","5","6","7","8","9">>[i + 1]
DefaultPluginName(idx) ==
    <<"p","l","u","g","i","n","[">> \o <<DigitChar(idx)>> \o <<"]">>

RECURSIVE ErrorPerEarlier(_, _, _, _)
ErrorPerEarlier(plugins, i, j, r) ==
    IF j >= i THEN r
    ELSE ErrorPerEarlier(plugins, i, j + 1,
            IF Get(plugins[j + 1], "name", <<>>) = Get(plugins[i + 1], "name", <<>>)
            THEN ReportError(r, "duplicate-plugin-name",
                             <<Get(plugins[i + 1], "name", <<>>), j, i>>, None, None)
            ELSE r)

RECURSIVE CheckNamesPerPair(_, _, _, _)
\* A uniqueness check that reports every pair of plugins sharing a name.
CheckNamesPerPair(plugins, i, seen, r) ==
    IF i >= Len(plugins) THEN r
    ELSE IF Get(plugins[i + 1], "name", <<>>) = <<>>
    THEN CheckNamesPerPair(plugins, i + 1, seen, r)
    ELSE CheckNamesPerPair(plugins, i + 1, seen, ErrorPerEarlier(plugins, i, 0, r))

RECURSIVE CheckNames(_, _, _, _)
\* The loop of check_unique_plugin_names from index i (counted from 0).
CheckNames(plugins, i, seen, r) ==
    IF i >= Len(plugins) THEN r
    ELSE LET name == Get(plugins[i + 1], "name", <<>>) IN
         IF name = <<>> THEN CheckNames(plugins, i + 1, seen, r)
         ELSE CheckNames(plugins, i + 1, DictSet(seen, name, i),
                 IF name \in DOMAIN seen
                 THEN ReportError(r, "duplicate-plugin-name",
                                  <<name, seen[name], i>>, None, None)
                 ELSE r)

\* check_unique_plugin_names(plugins, report)
check_unique_plugin_names(plugins, r) == CheckNames(plugins, 0, <<>>, r)

RECURSIVE PluginFields(_, _, _, _, _)
\* for field in fields: if field not in plugin: error or warning
PluginFields(fields, severity, plugin, plugin_name, r) ==
    IF fields = <<>> THEN r
    ELSE PluginFields(Tail(fields), severity, plugin, plugin_name,
            IF Head(fields) \in DOMAIN plugin THEN r
            ELSE IF severity = "error"
            THEN ReportError(r, "required-field",
                             <<plugin_name, Head(fields)>>, None, None)
            ELSE ReportWarning(r, "recommended-field",
                               <<plugin_name, Head(fields)>>, None, None))

\* normalized = skill_path.lstrip("./")
Normalize(ref) == LstripChars(ref, {".", "/"})

\* skill_md.is_file()
IsFile(files, norm) == Parts(norm) \in DOMAIN files

\* all_skill_paths[normalized] = plugin_name
ClaimPath(owners, norm, plugin_name) == DictSet(owners, norm, plugin_name)

\* `if normalized in all_skill_paths:` guarding the duplicate-path error
IsDuplicatePath(owners, norm, plugin_name) == norm \in DOMAIN owners

\* One iteration of `for skill_path in skills` on st = [report, owners].
ValidateSkill(ref, plugin_name, files, st) ==
    LET r1 == Bump(st.report, "skills_checked")
        norm == Normalize(ref)
        skill_md == SkillMd(norm)
    IN  IF ~IsFile(files, norm)
        THEN [report |-> ReportError(Bump(r1, "skills_missing"), "missing-skill",
                            <<ref>>, Some(skill_md), Some(<<ref, plugin_name>>)),
              owners |-> st.owners]
        ELSE LET r2 == IF IsDuplicatePath(st.owners, norm, plugin_name)
                       THEN ReportError(r1, "duplicate-path",
                                <<ref, st.owners[norm], plugin_name>>, None, None)
                       ELSE r1
             IN  [report |-> validate_skill_md(files[Parts(norm)], skill_md, norm, r2),
                  owners |-> ClaimPath(st.owners, norm, plugin_name)]

RECURSIVE ValidateSkills(_, _, _, _)
ValidateSkills(skills, plugin_name, files, st) ==
    IF skills = <<>> \/ IsCrash(st.report) THEN st
    ELSE ValidateSkills(Tail(skills), plugin_name, files,
                        ValidateSkill(Head(skills), plugin_name, files, st))

\* validate_plugin(plugin, idx, all_skill_paths, report, repo_root)
validate_plugin(plugin, idx, files, st) ==
    LET r1 == Bump(st.report, "plugins_checked")
        plugin_name == Get(plugin, "name", DefaultPluginName(idx))
        r2 == PluginFields(REQUIRED_PLUGIN_FIELDS, "error", plugin, plugin_name, r1)
        r3 == PluginFields(RECOMMENDED_PLUGIN_FIELDS, "warning", plugin,
                           plugin_name, r2)
        skills == Get(plugin, "skills", List(<<>>))
    IN  IF skills.tag # "list"
        THEN [report |-> ReportError(r3, "invalid-type", <<plugin_name>>, None, None),
              owners |-> st.owners]
        ELSE ValidateSkills(skills.val, plugin_name, files,
                            [report |-> r3, owners |-> st.owners])

RECURSIVE ValidatePlugins(_, _, _, _)
\* for i, plugin in enumerate(plugins): validate_plugin(...)
ValidatePlugins(plugins, i, files, st) ==
    IF i >= Len(plugins) \/ IsCrash(st.report) THEN st
    ELSE ValidatePlugins(plugins, i + 1, files,
                         validate_plugin(plugins[i + 1], i, files, st))

(***************************************************************************)
(* Orphan scanner                                                          *)
(***************************************************************************)
SKILLS_DIR == <<"s","k","i","l","l","s">>

RECURSIVE Join(_)
\* str(rel): the parts of a relative path joined by "/"
Join(parts) ==
    IF parts = <<>> THEN <<".">>
    ELSE IF Len(parts) = 1 THEN parts[1]
    ELSE parts[1] \o <<"/">> \o Join(Tail(parts))

\* skills_dir.rglob("SKILL.md"): the directories under skills/ holding one
RglobSkills(files) == {d \in DOMAIN files : d # <<>> /\ d[1] = SKILLS_DIR}

RECURSIVE ReportOrphans(_, _, _)
\* The loop of find_orphan_skills; rglob yields the files in some order.
ReportOrphans(dirs, registered, r) ==
    IF dirs = {} THEN r
    ELSE LET d == CHOOSE x \in dirs : TRUE
             norm == Join(d)
         IN  ReportOrphans(dirs \ {d}, registered,
                IF norm \notin registered
                THEN ReportWarning(Bump(r, "orphans_found"), "orphan-skill",
                        <<norm>>, Some(d \o <<SKILL_MD>>), Some(<<norm>>))
                ELSE r)

\* find_orphan_skills(repo_root, registered_paths, report)
find_orphan_skills(files, registered, r) ==
    ReportOrphans(RglobSkills(files), registered, r)

(***************************************************************************)
(* Fix mode                                                                *)
(***************************************************************************)
RECURSIVE KeepValidSkipsAfterRemoval(_, _)
\* Pruning the list while iterating over it: the reference after a removed
\* one is never looked at.
KeepValidSkipsAfterRemoval(skills, files) ==
    IF skills = <<>> THEN <<>>
    ELSE IF IsFile(files, Normalize(Head(skills)))
    THEN <<Head(skills)>> \o KeepValidSkipsAfterRemoval(Tail(skills), files)
    ELSE IF Tail(skills) = <<>> THEN <<>>
    ELSE <<Head(Tail(skills))>>
             \o KeepValidSkipsAfterRemoval(Tail(Tail(skills)), files)

RECURSIVE KeepValid(_, _)
\* valid: the references whose SKILL.md is a file
KeepValid(skills, files) ==
    IF skills = <<>> THEN <<>>
    ELSE IF IsFile(files, Normalize(Head(skills)))
    THEN <<Head(skills)>> \o KeepValid(Tail(skills), files)
    ELSE KeepValid(Tail(skills), files)

\* A fixer that writes back the normalized path instead of the reference.
FixPluginStoresNormalized(plugin, files) ==
    [k \in DOMAIN plugin \cup {"skills"} |->
        IF k = "skills"
        THEN List([i \in 1..Len(KeepValid(Get(plugin, "skills", List(<<>>)).val, files))
                     |-> Normalize(KeepValid(Get(plugin, "skills", List(<<>>)).val,
                                             files)[i])])
        ELSE plugin[k]]

\* The body of `for plugin in data.get("plugins", [])`: plugin["skills"] = valid
FixPlugin(plugin, files) ==
    [k \in DOMAIN plugin \cup {"skills"} |->
        IF k = "skills"
        THEN List(KeepValid(Get(plugin, "skills", List(<<>>)).val, files))
        ELSE plugin[k]]

\* [p for p in data["plugins"] if p.get("skills")]
NonEmptyPlugins(plugins) == SelectSeq(plugins, LAMBDA p : p["skills"].val # <<>>)

\* apply_fixes(marketplace_path, data, repo_root, report):
\* [crashed, fixed, data] where data is the in-memory manifest afterwards
apply_fixes(data, files) ==
    LET plugins == Get(data, "plugins", List(<<>>)).val IN
    IF \E i \in 1..Len(plugins) :
          Get(plugins[i], "skills", List(<<>>)).tag # "list"
    THEN [crashed |-> TRUE, fixed |-> FALSE, data |-> data]  \* for sp in <number>
    ELSE IF "plugins" \notin DOMAIN data
    THEN [crashed |-> TRUE, fixed |-> FALSE, data |-> data]  \* data["plugins"]: KeyError
    ELSE
    LET pruned == [i \in 1..Len(plugins) |-> FixPlugin(plugins[i], files)]
        removed_ref == \E i \in 1..Len(plugins) :
                          Get(plugins[i], "skills", List(<<>>)).val
                              # pruned[i]["skills"].val
        kept == NonEmptyPlugins(pruned)
    IN  [crashed |-> FALSE,
         fixed |-> removed_ref \/ Len(kept) < Len(pruned),
         data |-> [data EXCEPT !["plugins"] = List(kept)]]

(***************************************************************************)
(* verify                                                                  *)
(*                                                                         *)
(* The manifest file is Missing, NotJson, or Json(data).  json.dump then   *)
(* json.load gives back the same object, so the file holds the data.       *)
(***************************************************************************)
Missing == [kind |-> "missing"]
NotJson == [kind |-> "invalid"]
Json(data) == [kind |-> "json", data |-> data]

\* What verify() leaves behind: the report it returns (Crash if it raised),
\* the ownership map, the steps run, the manifest file, and what apply_fixes
\* returned (None if it was not called or raised), and the manifest object
\* in memory (None if none was loaded).
Outcome(r, owners, ran, file, fixed, data) ==
    [report |-> r, owners |-> owners, steps |-> ran, file |-> file,
     fixed |-> fixed, data |-> data]

\* A load that answers a parse failure with an empty object.
LoadJsonLenient(file) == IF file.kind = "json" THEN Some(file.data) ELSE Some(<<>>)

\* json.load(f): the object, or None where the code catches JSONDecodeError
LoadJson(file) == IF file.kind = "json" THEN Some(file.data) ELSE None

\* A guard that also returns when structural validation recorded an error.
StopsAfterAnyError(plugins, r) == plugins.tag # "list" \/ ~Passed(r)

\* `if not isinstance(plugins, list): return report`
StopsAfterStructure(plugins, r) == plugins.tag # "list"

\* `if fix and not report.passed():`
FixRuns(fix, r) == fix /\ ~Passed(r)

\* verify(marketplace_path, fix=fix) on the disk <<file, files>>
verify(file, files, fix) ==
    IF file.kind = "missing"
    THEN Outcome(ReportError(NewReport, "file-not-found", <<>>, None, None),
                 <<>>, <<>>, file, None, None)
    ELSE IF LoadJson(file) = None
    THEN Outcome(ReportError(NewReport, "invalid-json", <<>>, None, None),
                 <<>>, <<>>, file, None, None)
    ELSE
    LET data == LoadJson(file)[1]
        r1 == validate_marketplace_structure(data, NewReport)
        plugins == Get(data, "plugins", List(<<>>))
    IN  IF StopsAfterStructure(plugins, r1)
        THEN Outcome(r1, <<>>, <<"structure">>, file, None, Some(data))
        ELSE
        LET r2 == check_unique_plugin_names(plugins.val, r1)
            st == ValidatePlugins(plugins.val, 0, files,
                                  [report |-> r2, owners |-> <<>>])
        IN  IF IsCrash(st.report)
            THEN Outcome(Crash, st.owners, <<"structure", "unique", "plugins">>,
                         file, None, Some(data))
            ELSE
            LET r3 == find_orphan_skills(files, DOMAIN st.owners, st.report)
                ran == <<"structure", "unique", "plugins", "orphans">>
            IN  IF ~FixRuns(fix, r3)
                THEN Outcome(r3, st.owners, ran, file, None, Some(data))
                ELSE
                LET fx == apply_fixes(data, files) IN
                IF fx.crashed
                THEN Outcome(Crash, st.owners, Append(ran, "fix"), file, None,
                             Some(data))
                ELSE Outcome(r3, st.owners, Append(ran, "fix"),
                             IF fx.fixed THEN Json(fx.data) ELSE file,
                             Some(fx.fixed), Some(fx.data))

(***************************************************************************)
(* Bounds and input sets                                                   *)
(***************************************************************************)
MaxCalls == 3      \* error()/warning() calls made on one Report
MaxPathLen == 5    \* characters of a skill reference (SpecNorm)
MaxNamed == 3      \* plugins given to check_unique_plugin_names (SpecNames)
MaxLines == 3      \* lines between the frontmatter delimiters (SpecFM)
MaxPlugins == 2    \* plugins of a manifest (SpecVerify)
MaxRefs == 2       \* skill references of a manifest, over all plugins (SpecVerify)

\* All sequences over S of length at most n.
SeqsUpTo(S, n) == UNION {[1..k -> S] : k \in 0..n}

\* Text used by the input sets.
T_skills_a == <<"s","k","i","l","l","s","/","a">>
T_dot_skills_a == <<".","/">> \o T_skills_a
T_skills_b == <<"s","k","i","l","l","s","/","b">>
T_p == <<"p">>
T_q == <<"q">>
T_name_doing == <<"n","a","m","e",":"," ","d","o","i","n","g">>
T_name_spaced == <<" ","n","a","m","e"," ",":"," ","b"," ">>
T_name_empty == <<"n","a","m","e",":">>
T_name_a == <<"n","a","m","e",":"," ","a">>
T_desc == <<"d","e","s","c","r","i","p","t","i","o","n",":"," ",
            "U","s","e"," ","w","h","e","n"," ","x">>
T_desc_empty == <<"d","e","s","c","r","i","p","t","i","o","n",":"," ">>
T_item_x == <<"-"," ","x">>
T_item_y == <<" ","-"," "," ","y"," ">>
T_comment == <<"#"," ","c",":"," ","d">>
T_junk == <<"j","u","n","k">>
T_nokey_z == <<":"," ","z">>
T_nokey == <<":">>
T_delim_spaced == <<" ","-","-","-"," ">>

\* A document that passes every rule but the gerund heuristic, for skills/a.
GoodDoc == <<DELIM, T_name_a, T_desc, DELIM>>
\* A document without frontmatter.
BadDoc == <<T_junk>>

(***************************************************************************)
(* Values of the variables a specification leaves alone                    *)
(***************************************************************************)
ReportIdle == report = NewReport /\ calls = <<>>
NormIdle == skill_path = <<>> /\ normalized = None
FmIdle == content = <<>> /\ fm_result = None
DiskIdle ==
    /\ marketplace = Missing /\ skill_files = <<>>
    /\ all_skill_paths = <<>> /\ manifest = None /\ runs = <<>>

(***************************************************************************)
(* SpecReport: a Report under any sequence of error() and warning() calls  *)
(***************************************************************************)
RulePool == {"missing-skill", "orphan-skill"}
PathArgPool == {None, Some(<<>>), Some(<<SKILL_MD>>)}
FixArgPool == {None, Some(<<T_p>>)}

InitReport == ReportIdle /\ NormIdle /\ FmIdle /\ DiskIdle /\ steps = <<>>

ErrorCall ==
    /\ Len(calls) < MaxCalls
    /\ \E rule \in RulePool, path \in PathArgPool, fix \in FixArgPool :
          report' = ReportError(report, rule, <<>>, path, fix)
    /\ calls' = Append(calls, "error")
    /\ UNCHANGED <<skill_path, normalized, content, fm_result, marketplace,
                   skill_files, all_skill_paths, manifest, steps, runs>>

WarningCall ==
    /\ Len(calls) < MaxCalls
    /\ \E rule \in RulePool, path \in PathArgPool, fix \in FixArgPool :
          report' = ReportWarning(report, rule, <<>>, path, fix)
    /\ calls' = Append(calls, "warning")
    /\ UNCHANGED <<skill_path, normalized, content, fm_result, marketplace,
                   skill_files, all_skill_paths, manifest, steps, runs>>

NextReport == ErrorCall \/ WarningCall

SpecReport == InitReport /\ [][NextReport]_vars

\* C1: in every state reached by error() and warning() calls, passed() is
\* true exactly when no error() call was made, whatever number of warning()
\* calls was made, and both renderings show PASS exactly when passed() is true.
C1_PassedIffNoError ==
    /\ Passed(report) <=> (\A i \in 1..Len(calls) : calls[i] # "error")
    /\ Len(report.warnings) = Cardinality({i \in 1..Len(calls) : calls[i] = "warning"})
    /\ ToDict(report).status = "PASS" <=> Passed(report)
    /\ TableStatus(report) = "PASS" <=> Passed(report)

\* Warnings were recorded and the report still passes.
C1_Witness == Len(report.warnings) >= 2 /\ Passed(report)

(***************************************************************************)
(* SpecNorm: one skill, referenced as p by plugin p and as ./p by plugin   *)
(* q, with <root>/p/SKILL.md on disk                                       *)
(***************************************************************************)
PathChars == {".", "/", "a"}

\* A relative path made of directory names only: no leading or doubled "/",
\* no "." or ".." component (so it is not itself written with a leading "./").
IsPlainRelative(p) ==
    /\ p # <<>>
    /\ \A i \in 1..Len(Split(p, "/")) :
          Split(p, "/")[i] \notin {<<>>, <<".">>, <<".", ".">>}

PathPool == {p \in SeqsUpTo(PathChars, MaxPathLen) : IsPlainRelative(p)}

FullPlugin(name, skills) ==
    [name |-> name, source |-> T_p, description |-> T_p, category |-> T_p,
     skills |-> skills]

InitNorm ==
    /\ skill_path \in PathPool
    /\ normalized = None
    /\ ReportIdle /\ FmIdle /\ DiskIdle /\ steps = <<>>

ValidateBothSpellings ==
    /\ steps = <<>>
    /\ LET files == (Parts(skill_path) :> GoodDoc)
           plugins == <<FullPlugin(T_p, List(<<skill_path>>)),
                        FullPlugin(T_q, List(<<<<".", "/">> \o skill_path>>))>>
           st == ValidatePlugins(plugins, 0, files,
                                 [report |-> NewReport, owners |-> <<>>])
       IN  /\ skill_files' = files
           /\ report' = st.report
           /\ all_skill_paths' = st.owners
    /\ normalized' = Some(Normalize(skill_path))
    /\ steps' = <<"validate_plugin">>
    /\ UNCHANGED <<calls, skill_path, content, fm_result, marketplace, manifest, runs>>

NextNorm == ValidateBothSpellings

SpecNorm == InitNorm /\ [][NextNorm]_vars

\* C4: for every relative path p, the references p and ./p normalize to p,
\* both resolve to <root>/p/SKILL.md, the ownership map registers the one
\* path p, and the second spelling is reported as a duplicate of the first.
C4_BothSpellingsAreP ==
    steps # <<>> =>
        /\ normalized = Some(skill_path)
        /\ report.stats.skills_missing = 0
        /\ DOMAIN all_skill_paths = {skill_path}
        /\ \E i \in 1..Len(report.errors) : report.errors[i].rule = "duplicate-path"

(***************************************************************************)
(* SpecNames: check_unique_plugin_names on a list of plugins               *)
(***************************************************************************)
NamedPool ==
    {[source |-> T_p], [name |-> <<>>, source |-> T_p],
     [name |-> T_p, source |-> T_p], [name |-> T_q, source |-> T_p]}

InitNames ==
    /\ \E pl \in SeqsUpTo(NamedPool, MaxNamed) :
          marketplace = Json([name |-> T_p, plugins |-> List(pl)])
    /\ skill_files = <<>> /\ all_skill_paths = <<>> /\ manifest = None /\ runs = <<>>
    /\ ReportIdle /\ NormIdle /\ FmIdle /\ steps = <<>>

CheckUniquePluginNames ==
    /\ steps = <<>>
    /\ report' = check_unique_plugin_names(marketplace.data["plugins"].val, NewReport)
    /\ steps' = <<"check_unique_plugin_names">>
    /\ UNCHANGED <<calls, skill_path, normalized, content, fm_result, marketplace,
                   skill_files, all_skill_paths, manifest, runs>>

NextNames == CheckUniquePluginNames

SpecNames == InitNames /\ [][NextNames]_vars

\* The non-empty names of a plugin list, and how often one occurs.
NamesOf(pl) ==
    {Get(pl[i], "name", <<>>) : i \in 1..Len(pl)} \ {<<>>}
Occurrences(pl, n) ==
    Cardinality({i \in 1..Len(pl) : Get(pl[i], "name", <<>>) = n})

\* C5: check_unique_plugin_names records, for every non-empty name that
\* occurs k times, exactly k-1 duplicate-plugin-name errors, and no error
\* for anything else (plugins with a missing or empty name yield none).
C5_OneErrorPerDuplicate ==
    steps # <<>> =>
        LET pl == marketplace.data["plugins"].val
            errs == report.errors
        IN  /\ \A i \in 1..Len(errs) :
                  /\ errs[i].rule = "duplicate-plugin-name"
                  /\ errs[i].message[1] \in NamesOf(pl)
            /\ \A n \in NamesOf(pl) :
                  Cardinality({i \in 1..Len(errs) : errs[i].message[1] = n})
                      = Occurrences(pl, n) - 1

\* A name used three times gave two errors.
C5_Witness ==
    /\ steps # <<>>
    /\ \E n \in NamesOf(marketplace.data["plugins"].val) :
          Occurrences(marketplace.data["plugins"].val, n) = 3
    /\ Len(report.errors) = 2

(***************************************************************************)
(* SpecFM: parse_frontmatter and validate_skill_md on one document         *)
(***************************************************************************)
LinePool ==
    {T_name_doing, T_name_spaced, T_name_empty, T_desc, T_desc_empty, T_item_x,
     T_item_y, T_comment, T_junk, T_nokey_z, T_nokey, <<>>, T_delim_spaced}

DocPool ==
    {<<DELIM>> \o body \o <<T_delim_spaced>> : body \in SeqsUpTo(LinePool, MaxLines)}
        \cup {BadDoc, <<DELIM, T_name_doing>>, Unreadable}

Ran(op) == \E i \in 1..Len(steps) : steps[i] = op

InitFM ==
    /\ content \in DocPool
    /\ fm_result = None
    /\ ReportIdle /\ NormIdle /\ DiskIdle /\ steps = <<>>

ParseFrontmatter ==
    /\ ~Ran("parse_frontmatter")
    /\ content # Unreadable
    /\ fm_result' = Some(parse_frontmatter(content))
    /\ steps' = Append(steps, "parse_frontmatter")
    /\ UNCHANGED <<report, calls, skill_path, normalized, content, marketplace,
                   skill_files, all_skill_paths, manifest, runs>>

ValidateSkillMd ==
    /\ ~Ran("validate_skill_md")
    /\ report' = validate_skill_md(content, SkillMd(T_skills_a), T_skills_a, NewReport)
    /\ steps' = Append(steps, "validate_skill_md")
    /\ UNCHANGED <<calls, skill_path, normalized, content, fm_result, marketplace,
                   skill_files, all_skill_paths, manifest, runs>>

NextFM == ParseFrontmatter \/ ValidateSkillMd

SpecFM == InitFM /\ [][NextFM]_vars

\* The document opens with a delimiter line and has a later one.
HasFrontmatter(lines) ==
    /\ lines # <<>>
    /\ Strip(lines[1]) = DELIM
    /\ \E i \in 2..Len(lines) : Strip(lines[i]) = DELIM

\* The lines between the opening delimiter and the first later delimiter.
Block(lines) == SubSeq(lines, 2, EndIdx(lines) - 1)

\* The kinds of line of section 4.1.
IsSkippedLine(l) == Strip(l) = <<>> \/ Strip(l)[1] = "#"
IsItemLine(l) == ~IsSkippedLine(l) /\ StartsWith(Strip(l), <<"-", " ">>)
IsKeyLine(l) ==
    ~IsSkippedLine(l) /\ ~IsItemLine(l) /\ \E i \in 1..Len(Strip(l)) : Strip(l)[i] = ":"
KeyOf(l) == Strip(Partition(Strip(l), ":")[1])
ValueOf(l) == Strip(Partition(Strip(l), ":")[2])
ItemOf(l) == Strip(SubSeq(Strip(l), 3, Len(Strip(l))))

\* The trimmed remainders of the item lines after key line i of block B, up
\* to the next key line or the end of the block.
ItemsAfter(B, i) ==
    LET later == {j \in (i + 1)..Len(B) : IsKeyLine(B[j])}
        stop == IF later = {} THEN Len(B) + 1
                ELSE CHOOSE j \in later : \A m \in later : j <= m
        items == SelectSeq(SubSeq(B, i + 1, stop - 1), IsItemLine)
    IN  [j \in 1..Len(items) |-> ItemOf(items[j])]

\* What a key line stands for in the mapping.
ValueAt(B, i) ==
    IF ValueOf(B[i]) # <<>> THEN Str(ValueOf(B[i])) ELSE List(ItemsAfter(B, i))

KeyLines(B) == {i \in 1..Len(B) : IsKeyLine(B[i])}

\* Key line i is the last key line of B for its key.
IsLastForKey(B, i) ==
    \A j \in KeyLines(B) : KeyOf(B[j]) = KeyOf(B[i]) => j <= i

\* C9 as stated: for a document with both delimiters parse_frontmatter
\* returns a mapping and no error in which every key line maps its key to
\* its scalar, or to the list of the item lines that follow it, and nothing
\* else is in the mapping.
C9_EveryKeyLineMapped ==
    (Ran("parse_frontmatter") /\ HasFrontmatter(content)) =>
        /\ fm_result[1].err = NO_ERROR
        /\ fm_result[1].fm # None
        /\ LET B == Block(content)
               fm == fm_result[1].fm[1]
           IN  /\ DOMAIN fm = {KeyOf(B[i]) : i \in KeyLines(B)}
               /\ \A i \in KeyLines(B) :
                     KeyOf(B[i]) \in DOMAIN fm /\ fm[KeyOf(B[i])] = ValueAt(B, i)

\* C9, amended: for a document with both delimiters parse_frontmatter
\* returns a mapping and no error whose non-empty keys are the non-empty
\* keys of the key lines; each maps to what the last key line for it stands
\* for: its trimmed scalar, or the ordered list of the trimmed item lines
\* that follow it up to the next key line or the end of the block.  Item
\* lines met when no such list is open are dropped.  The empty key maps only
\* to the scalar of the last key line that gives it one.
C9_LastKeyLineMapped ==
    (Ran("parse_frontmatter") /\ HasFrontmatter(content)) =>
        /\ fm_result[1].err = NO_ERROR
        /\ fm_result[1].fm # None
        /\ LET B == Block(content)
               fm == fm_result[1].fm[1]
               scalars == {i \in KeyLines(B) :
                              KeyOf(B[i]) = <<>> /\ ValueOf(B[i]) # <<>>}
           IN  /\ DOMAIN fm \ {<<>>} = {KeyOf(B[i]) : i \in KeyLines(B)} \ {<<>>}
               /\ \A i \in KeyLines(B) :
                     (KeyOf(B[i]) # <<>> /\ IsLastForKey(B, i)) =>
                         fm[KeyOf(B[i])] = ValueAt(B, i)
               /\ <<>> \in DOMAIN fm <=> scalars # {}
               /\ \A i \in scalars :
                     (\A j \in scalars : j <= i) => fm[<<>>] = Str(ValueOf(B[i]))

\* A list was collected under a key, and an item line before the first key
\* line was dropped.
C9_Witness ==
    /\ Ran("parse_frontmatter") /\ HasFrontmatter(content)
    /\ Len(Block(content)) >= 3
    /\ IsItemLine(Block(content)[1])
    /\ \E k \in DOMAIN fm_result[1].fm[1] :
          /\ fm_result[1].fm[1][k].tag = "list"
          /\ fm_result[1].fm[1][k].val # <<>>

\* C10: whenever validate_skill_md records no error for a readable document,
\* the frontmatter holds both name and description as non-empty strings.
C10_NoErrorMeansNameAndDescription ==
    (/\ Ran("validate_skill_md")
     /\ content # Unreadable
     /\ ~IsCrash(report)
     /\ Len(report.errors) = 0) =>
        LET res == parse_frontmatter(content) IN
        /\ res.fm # None
        /\ \A k \in {KEY_NAME, KEY_DESCRIPTION} :
              /\ k \in DOMAIN res.fm[1]
              /\ res.fm[1][k].tag = "str"
              /\ res.fm[1][k].val # <<>>

(***************************************************************************)
(* SpecVerify: verify() runs, with and without --fix, on a manifest and a  *)
(* skills tree that may change between runs                                *)
(***************************************************************************)
RefPool == {T_dot_skills_a, T_skills_b}

\* The `skills` field of a plugin: missing, a number, or an array.
SkillsPool ==
    {None, Some(Num)}
        \cup {Some(List(l)) : l \in SeqsUpTo(RefPool, MaxRefs) \ {<<>>}}

\* The other fields of a plugin: all there, or the source only.
BasePool ==
    {[name |-> T_p, source |-> T_p, description |-> T_p, category |-> T_p],
     [source |-> T_q]}

PluginPool ==
    {IF sk = None THEN b ELSE b @@ [skills |-> sk[1]] : b \in BasePool, sk \in SkillsPool}

RECURSIVE RefCount(_)
RefCount(pl) ==
    IF pl = <<>> THEN 0
    ELSE (IF "skills" \in DOMAIN Head(pl) /\ Head(pl)["skills"].tag = "list"
          THEN Len(Head(pl)["skills"].val) ELSE 0) + RefCount(Tail(pl))

PluginLists == {pl \in SeqsUpTo(PluginPool, MaxPlugins) : RefCount(pl) <= MaxRefs}

DataPool ==
    {[name |-> T_p, plugins |-> List(pl)] : pl \in PluginLists}
        \cup {[plugins |-> List(pl)] : pl \in {x \in PluginLists : Len(x) <= 1}}
        \cup {[name |-> T_p], [name |-> T_p, plugins |-> Num], [plugins |-> Num]}

ManifestPool == {Missing, NotJson} \cup {Json(d) : d \in DataPool}

\* skills/a holds a good document if any; skills/b one without frontmatter,
\* or one whose name is a list.
DIR_A == <<SKILLS_DIR, <<"a">>>>
DIR_B == <<SKILLS_DIR, <<"b">>>>
ListNameDoc == <<DELIM, T_name_empty, T_item_x, T_desc, DELIM>>
DiskPool ==
    {<<>>, (DIR_A :> GoodDoc)}
        \cup {(DIR_B :> doc) : doc \in {BadDoc, ListNameDoc}}
        \cup {(DIR_A :> GoodDoc) @@ (DIR_B :> doc) : doc \in {BadDoc, ListNameDoc}}

InitVerify ==
    /\ marketplace \in ManifestPool
    /\ skill_files \in DiskPool
    /\ all_skill_paths = <<>>
    /\ manifest = None
    /\ runs = <<>>
    /\ ReportIdle /\ NormIdle /\ FmIdle /\ steps = <<>>

\* The last two runs.
LastTwo(rs) == IF Len(rs) > 2 THEN Tail(rs) ELSE rs

\* One run of the script, `--fix` given or not.
Verify(fix) ==
    \E o \in {verify(marketplace, skill_files, fix)} :
    /\ report' = o.report
    /\ all_skill_paths' = o.owners
    /\ steps' = o.steps
    /\ marketplace' = o.file
    /\ manifest' = o.data
    /\ runs' = LastTwo(Append(runs,
                  [fix |-> fix, fixed |-> o.fixed,
                   wrote |-> o.file # marketplace,
                   pruned |-> o.data # LoadJson(marketplace)]))
    /\ UNCHANGED <<calls, skill_path, normalized, content, fm_result, skill_files>>

VerifyOnly == Verify(FALSE)
VerifyFix == Verify(TRUE)

\* Someone adds or removes skill documents between two runs.
DiskChanges ==
    /\ \E files \in DiskPool : files # skill_files /\ skill_files' = files
    /\ runs' = <<>>
    /\ report' = NewReport
    /\ all_skill_paths' = <<>>
    /\ manifest' = None
    /\ steps' = <<>>
    /\ UNCHANGED <<calls, skill_path, normalized, content, fm_result, marketplace>>

NextVerify == VerifyOnly \/ VerifyFix \/ DiskChanges

SpecVerify == InitVerify /\ [][NextVerify]_vars

Last(rs) == rs[Len(rs)]
ALL_STEPS == <<"structure", "unique", "plugins", "orphans">>
RanAllSteps == Len(steps) >= Len(ALL_STEPS) /\ SubSeq(steps, 1, Len(ALL_STEPS)) = ALL_STEPS

\* C2: when the manifest file does not exist or is not JSON, verify()
\* returns a report with exactly one error (file-not-found or invalid-json),
\* no warning and all counters zero, and runs no validator, no orphan scan
\* and no fixer, with or without --fix.
C2_FatalStopsEverything ==
    (runs # <<>> /\ marketplace.kind \in {"missing", "invalid"}) =>
        /\ ~IsCrash(report)
        /\ Len(report.errors) = 1
        /\ report.errors[1].rule =
              (IF marketplace.kind = "missing" THEN "file-not-found" ELSE "invalid-json")
        /\ report.warnings = <<>>
        /\ \A c \in DOMAIN report.stats : report.stats[c] = 0
        /\ steps = <<>>
        /\ all_skill_paths = <<>>
        /\ manifest = None
        /\ Last(runs).fixed = None
        /\ ~Last(runs).wrote

\* A run with --fix on a manifest that is not JSON.
C2_Witness == runs # <<>> /\ marketplace = NotJson /\ Last(runs).fix

Orphans(files, owners) == {d \in RglobSkills(files) : Join(d) \notin DOMAIN owners}

Resolves(files, ref) ==
    Parts(IF StartsWith(ref, <<".", "/">>) THEN SubSeq(ref, 3, Len(ref)) ELSE ref)
        \in DOMAIN files

\* Plugin q is plugin p with its skills reduced to those that resolve.
Survives(q, p, files) ==
    /\ DOMAIN q = DOMAIN p
    /\ "skills" \in DOMAIN p
    /\ \A k \in DOMAIN p \ {"skills"} : q[k] = p[k]
    /\ p["skills"].tag = "list" /\ q["skills"].tag = "list"
    /\ q["skills"].val = SelectSeq(p["skills"].val, LAMBDA ref : Resolves(files, ref))

RECURSIVE IsPrunedSubseq(_, _, _)
\* Q is P with some plugins left out and the others reduced, in order.
IsPrunedSubseq(Q, P, files) ==
    IF Q = <<>> THEN TRUE
    ELSE IF P = <<>> THEN FALSE
    ELSE \/ Survives(Head(Q), Head(P), files) /\ IsPrunedSubseq(Tail(Q), Tail(P), files)
         \/ IsPrunedSubseq(Q, Tail(P), files)

FixOnlyRemoves(before, after, files) ==
    /\ DOMAIN after = DOMAIN before
    /\ \A k \in DOMAIN before \ {"plugins"} : after[k] = before[k]
    /\ after["plugins"].tag = "list"
    /\ IsPrunedSubseq(after["plugins"].val, before["plugins"].val, files)

ClaimsOf(pl, files) ==
    {c \in (1..Len(pl)) \X (1..MaxRefs) :
        /\ Get(pl[c[1]], "skills", List(<<>>)).tag = "list"
        /\ c[2] <= Len(Get(pl[c[1]], "skills", List(<<>>)).val)
        /\ IsFile(files, Normalize(pl[c[1]]["skills"].val[c[2]]))}
RefAt(pl, c) == pl[c[1]]["skills"].val[c[2]]
NameAt(pl, c) == Get(pl[c[1]], "name", DefaultPluginName(c[1] - 1))
FirstClaim(pl, files, norm) ==
    CHOOSE c \in ClaimsOf(pl, files) :
        /\ Normalize(RefAt(pl, c)) = norm
        /\ \A d \in ClaimsOf(pl, files) :
              Normalize(RefAt(pl, d)) = norm =>
                  (c[1] < d[1] \/ (c[1] = d[1] /\ c[2] <= d[2]))

\* C8: after the plugins are validated, the ownership map gives for each
\* normalized path the first plugin that claimed it, and the duplicate-path
\* errors are exactly one for each later claim made by another plugin than
\* that first one, naming the first owner and the claiming plugin.
C8_FirstClaimerWins ==
    (/\ runs # <<>> /\ marketplace.kind = "json" /\ ~IsCrash(report)
     /\ RanAllSteps /\ ~Last(runs).pruned) =>
        LET pl == Get(marketplace.data, "plugins", List(<<>>)).val
            claims == ClaimsOf(pl, skill_files)
            first(c) == FirstClaim(pl, skill_files, Normalize(RefAt(pl, c)))
            later == {c \in claims : first(c)[1] # c[1]}
            dups == SelectSeq(report.errors, LAMBDA e : e.rule = "duplicate-path")
        IN  /\ DOMAIN all_skill_paths = {Normalize(RefAt(pl, c)) : c \in claims}
            /\ \A c \in claims :
                  all_skill_paths[Normalize(RefAt(pl, c))] = NameAt(pl, first(c))
            /\ Len(dups) = Cardinality(later)
            /\ \A i \in 1..Len(dups) :
                  \E c \in later :
                      dups[i].message = <<RefAt(pl, c), NameAt(pl, first(c)), NameAt(pl, c)>>

====
